---- MODULE Spec2Model ----
(***************************************************************************)
(* A model of the VSS thin client (src/src/client.rs): the four operations *)
(* get_object, put_object, delete_object and list_key_versions of          *)
(* VssClient, each as the steps between its await points, over a transport *)
(* and a retry policy that the environment supplies.                       *)
(*                                                                         *)
(* The error type (crate::error), the retry loop (crate::util::retry) and  *)
(* the message types (crate::types) are used by client.rs but are not part *)
(* of the sources at hand: they are modelled from the specification.       *)
(***************************************************************************)
EXTENDS Integers, Sequences, FiniteSets, TLC

\* ---------------------------------------------------------------- bounds

\* Number of call slots (concurrent calls on one shared client).
NumCalls == 2

\* Cap on the transport calls of one call (put_object itself has none).
MaxSends == 3

\* The attempt at which the policy "MaxAttempts" answers stop.
PolicyMaxAttempts == 2

CallIds == 1..NumCalls

\* ------------------------------------------------------- input domains

Ops == {"get", "put", "delete", "list"}

BaseUrls == {"http://vss", "http://vss/v2"}

\* Status codes the transport may answer with.
Statuses == {200, 302, 404, 500}

\* Response bodies the transport may answer with: the empty message, a
\* message whose field 1 is present (and empty), and a truncated varint.
Bodies == {<< >>, <<10, 0>>, <<255>>}

\* Requests: a store_id (bytes of a string), empty or not.
Requests == {[store_id |-> << >>], [store_id |-> <<115>>]}

\* Retry policies a caller may construct the client with.
Policies == {"Never", "Always", "ServerErrorOnly", "MaxAttempts"}

\* ------------------------------------------------------------- state

VARIABLES
  base_url, client, retry_policy,   \* VssClient's fields
  mode, calls, budget,              \* the environment: transport behaviour
  pc, op, req,                      \* each call: position, operation, request
  status,                           \* each attempt's local across its awaits
  attempts_made, timer,             \* the retry loop's locals
  result,                           \* what the call returned
  sends, inflight, lastSent, wire,  \* what the transport saw and answered
  consults, lastConsult,            \* what the retry policy saw and answered
  nfail, onlySrv                    \* failed attempts as the transport saw them

cfg == <<base_url, client, retry_policy>>
envv == <<mode, calls, budget>>
callv == <<pc, op, req, status, attempts_made, timer, result>>
obsv == <<sends, inflight, lastSent, wire, consults, lastConsult, nfail, onlySrv>>
vars == <<cfg, envv, callv, obsv>>

\* --------------------------------------------------------- wire codec

\* Encoding of a request: field 1 (store_id), omitted when empty.
Encode(r) ==
  IF r.store_id = << >> THEN << >>
  ELSE <<10, Len(r.store_id)>> \o r.store_id

RECURSIVE ParseFrom(_, _, _)
\* The fields of a message, read from byte i on: each a key byte
\* (number * 8 + wire type), then a one-byte varint (wire type 0) or a
\* length byte and that many bytes (wire type 2). Keys and varints of
\* more than one byte, and the other wire types, do not occur in Bodies
\* as parts of a well-formed message: they end the parse with an error.
ParseFrom(b, i, acc) ==
  IF i > Len(b) THEN [ok |-> TRUE, fields |-> acc]
  ELSE LET t == b[i] IN
    IF t >= 128 \/ t \div 8 = 0 \/ i + 1 > Len(b) \/ b[i + 1] >= 128
    THEN [ok |-> FALSE, fields |-> << >>]
    ELSE IF t % 8 = 0
    THEN ParseFrom(b, i + 2,
           Append(acc, [num |-> t \div 8, wt |-> 0, content |-> <<b[i + 1]>>]))
    ELSE IF t % 8 = 2 /\ i + 1 + b[i + 1] <= Len(b)
    THEN ParseFrom(b, i + 2 + b[i + 1],
           Append(acc, [num |-> t \div 8, wt |-> 2,
                        content |-> SubSeq(b, i + 2, i + 1 + b[i + 1])]))
    ELSE [ok |-> FALSE, fields |-> << >>]

ParseFields(b) == ParseFrom(b, 1, << >>)

ResponseShape(o) ==
  CASE o = "get" -> "GetObjectResponse"
    [] o = "put" -> "PutObjectResponse"
    [] o = "delete" -> "DeleteObjectResponse"
    [] o = "list" -> "ListKeyVersionsResponse"

NoVal == [shape |-> "none", value |-> << >>]

\* Whether field f of a get or list response is its message-typed field 1.
IsValueField(o, f) == o \in {"get", "list"} /\ f.num = 1

\* Decoding of a body into the operation's response: the contents of
\* field 1 (get: the value; list: the key versions), other fields skipped.
Decode(o, b) ==
  LET p == ParseFields(b)
      vals == SelectSeq(p.fields, LAMBDA f : IsValueField(o, f))
      bad == \E k \in 1..Len(vals) :
               vals[k].wt # 2 \/ ~ParseFields(vals[k].content).ok
  IN IF p.ok /\ ~bad
     THEN [ok |-> TRUE,
           val |-> [shape |-> ResponseShape(o),
                    value |-> [k \in 1..Len(vals) |-> vals[k].content]]]
     ELSE [ok |-> FALSE, val |-> NoVal]

\* ------------------------------------------------------------- errors

NoErr == [kind |-> "none", status |-> 0, body |-> << >>, msg |-> ""]

\* A transport failure (reqwest::Error converted by `?`).
TransportError ==
  [kind |-> "TransportError", status |-> 0, body |-> << >>, msg |-> "transport"]

\* A body that does not decode (prost::DecodeError converted by `?`).
MalformedResponse ==
  [kind |-> "MalformedResponse", status |-> 0, body |-> << >>, msg |-> "decode"]

\* VssError::new(status, payload): the kind from the status range, the raw
\* status and the raw body kept.
VssError_new(s, b) ==
  [kind |-> IF s \in 400..499 THEN "ClientError"
            ELSE IF s \in 500..599 THEN "ServerError"
            ELSE "UnclassifiedStatus",
   status |-> s, body |-> b, msg |-> ""]

\* The error get_object builds itself when the value is absent.
ApiViolation ==
  [kind |-> "InternalServerError", status |-> 0, body |-> << >>,
   msg |-> "VSS Server API Violation, expected value in GetObjectResponse but found none"]

Ok(v) == [ok |-> TRUE, val |-> v, err |-> NoErr]
Err(e) == [ok |-> FALSE, val |-> NoVal, err |-> e]
NoResult == [ok |-> FALSE, val |-> NoVal, err |-> NoErr]

\* ------------------------------------------------------- retry policy

\* decide(attempt, error) of a policy: whether to retry, and after what wait.
Decide(p, n, e) ==
  CASE p = "Never" -> [retry |-> FALSE, delay |-> 0]
    [] p = "Always" -> [retry |-> TRUE, delay |-> 1]
    [] p = "ServerErrorOnly" -> [retry |-> e.kind = "ServerError", delay |-> 0]
    [] p = "MaxAttempts" -> [retry |-> n < PolicyMaxAttempts, delay |-> 2]

\* ------------------------------------------------- the client's methods

\* Variant: every status below 400 taken for a success.
IsSuccess_Below400(s) == s < 400

\* status.is_success()
IsSuccess(s) == s \in 200..299

\* Variant: put_object posting to the singular path.
Suffix_Singular(o) ==
  CASE o = "get" -> "/getObject"
    [] o = "put" -> "/putObject"
    [] o = "delete" -> "/deleteObject"
    [] o = "list" -> "/listKeyVersions"

\* The path each operation posts to.
Suffix(o) ==
  CASE o = "get" -> "/getObject"
    [] o = "put" -> "/putObjects"
    [] o = "delete" -> "/deleteObject"
    [] o = "list" -> "/listKeyVersions"

\* format!("{}/<suffix>", self.base_url)
Url(o) == base_url \o Suffix(o)

\* Variant: get_object without its test of the value.
get_object_result_NoValueTest(s, p) ==
  IF s \in 200..299
  THEN LET d == Decode("get", p) IN
       IF ~d.ok THEN Err(MalformedResponse) ELSE Ok(d.val)
  ELSE Err(VssError_new(s, p))

\* get_object after both awaits: the status test, the decoding, the value test.
get_object_result(s, p) ==
  IF IsSuccess(s)
  THEN LET d == Decode("get", p) IN
       IF ~d.ok THEN Err(MalformedResponse)
       ELSE IF d.val.value = << >> THEN Err(ApiViolation)
       ELSE Ok(d.val)
  ELSE Err(VssError_new(s, p))

\* Variant: put_object's closure taking a body that does not decode for an
\* empty response.
put_object_result_DecodeLenient(s, p) ==
  IF s \in 200..299
  THEN LET d == Decode("put", p) IN
       IF ~d.ok THEN Ok([shape |-> "PutObjectResponse", value |-> << >>])
       ELSE Ok(d.val)
  ELSE Err(VssError_new(s, p))

\* Variant: put_object's closure with get_object's test of the value.
put_object_result_ValueTest(s, p) ==
  IF s \in 200..299
  THEN LET d == Decode("put", p) IN
       IF ~d.ok THEN Err(MalformedResponse)
       ELSE IF d.val.value = << >> THEN Err(ApiViolation)
       ELSE Ok(d.val)
  ELSE Err(VssError_new(s, p))

\* Variant: put_object's closure building its error from the status alone.
put_object_result_NoBody(s, p) ==
  IF s \in 200..299
  THEN LET d == Decode("put", p) IN
       IF ~d.ok THEN Err(MalformedResponse) ELSE Ok(d.val)
  ELSE Err(VssError_new(s, << >>))

\* put_object's closure after both awaits.
put_object_result(s, p) ==
  IF IsSuccess(s)
  THEN LET d == Decode("put", p) IN
       IF ~d.ok THEN Err(MalformedResponse) ELSE Ok(d.val)
  ELSE Err(VssError_new(s, p))

\* delete_object after both awaits.
delete_object_result(s, p) ==
  IF IsSuccess(s)
  THEN LET d == Decode("delete", p) IN
       IF ~d.ok THEN Err(MalformedResponse) ELSE Ok(d.val)
  ELSE Err(VssError_new(s, p))

\* Variant: list_key_versions taking a body that does not decode for an
\* empty response.
list_key_versions_result_Lenient(s, p) ==
  IF s \in 200..299
  THEN LET d == Decode("list", p) IN
       IF ~d.ok THEN Ok([shape |-> "ListKeyVersionsResponse", value |-> << >>])
       ELSE Ok(d.val)
  ELSE Err(VssError_new(s, p))

\* list_key_versions after both awaits.
list_key_versions_result(s, p) ==
  IF IsSuccess(s)
  THEN LET d == Decode("list", p) IN
       IF ~d.ok THEN Err(MalformedResponse) ELSE Ok(d.val)
  ELSE Err(VssError_new(s, p))

\* Variant: the status is tested before the body is awaited.
BodyFailResult_StatusFirst(s) ==
  IF s \in 200..299 THEN Err(TransportError) ELSE Err(VssError_new(s, << >>))

\* An attempt whose bytes().await fails after status s was read: `?`
\* returns before the status is tested.
BodyFailResult(s) == Err(TransportError)

AttemptResult(o, s, p) ==
  CASE o = "get" -> get_object_result(s, p)
    [] o = "put" -> put_object_result(s, p)
    [] o = "delete" -> delete_object_result(s, p)
    [] o = "list" -> list_key_versions_result(s, p)

\* Variant: no operation runs under retry().
Retried_None(o) == FALSE

\* Variant: every operation runs under retry().
Retried_All(o) == TRUE

\* Which operations run their attempt under retry(): put_object alone.
Retried(o) == o = "put"

\* Variant: put_object hands retry() a policy that never stops.
PolicyUsed_Always == "Always"

\* Variant: put_object hands retry() a built-in capped policy.
PolicyUsed_BuiltIn == "MaxAttempts"

\* The policy put_object hands to retry(): &self.retry_policy.
PolicyUsed == retry_policy

\* Variant: an operation wraps the error it returns.
Surface_Wrapped(o, r) ==
  IF r.ok THEN r
  ELSE Err([kind |-> "InternalError", status |-> 0, body |-> << >>,
            msg |-> r.err.kind])

\* What an operation returns for the outcome r of its attempt (or of
\* retry()): r itself.
Surface(o, r) == r

\* Variant: each attempt issues a second, speculative send.
SendsPerAttempt_Hedged == 1 + 1

\* Each attempt issues one post(..).send().
SendsPerAttempt == 1

\* Variant: the status is kept in one place shared by all calls.
LocalSlot_Shared(c) == 1

\* Where a call keeps the status of its attempt across the await of the
\* body: in a local of its own future.
LocalSlot(c) == c

\* ------------------------------------------------------- the transport

NoWire == [send |-> "none", status |-> 0, body |-> "none", payload |-> << >>]

\* How an attempt ended, as the transport and the codec saw it.
WireOutcome(o, w) ==
  IF w.send = "failed" \/ w.body = "failed" THEN "transport"
  ELSE IF w.status \notin 200..299 THEN "status"
  ELSE IF ~Decode(o, w.payload).ok THEN "undecodable"
  ELSE IF o = "get" /\ Decode(o, w.payload).val.value = << >> THEN "novalue"
  ELSE "ok"

\* A transport that fails a bounded number of times may fail only while
\* its budget lasts.
MayFail(c) == mode # "flaky" \/ budget[c] > 0

\* What the callers ask and the transport answers: anything of the input
\* domains, or (for the concurrent put_object calls) one request, a success
\* or a server error, and an empty body, or (for concurrent calls of all
\* four operations) one request, a success or a server error, and a body
\* with or without field 1.
RequestsIn(m) == IF m = "any" THEN Requests ELSE {[store_id |-> << >>]}
StatusesIn(m) == IF m = "any" THEN Statuses ELSE {200, 500}
BodiesIn(m) ==
  IF m = "any" THEN Bodies
  ELSE IF m = "flaky" THEN {<< >>}
  ELSE {<< >>, <<10, 0>>}

NoConsult ==
  [policy |-> "none", attempt |-> 0, error |-> NoErr, retry |-> FALSE, delay |-> 0]

\* --------------------------------------------------------------- steps

Init ==
  /\ base_url \in BaseUrls
  /\ client = "reqwest::Client"
  /\ retry_policy \in Policies
  /\ mode = "any"
  /\ calls = {1}
  /\ budget = [c \in CallIds |-> 0]
  /\ pc = [c \in CallIds |-> "idle"]
  /\ op = [c \in CallIds |-> "none"]
  /\ req = [c \in CallIds |-> [store_id |-> << >>]]
  /\ status = [c \in CallIds |-> 0]
  /\ attempts_made = [c \in CallIds |-> 0]
  /\ timer = [c \in CallIds |-> 0]
  /\ result = [c \in CallIds |-> NoResult]
  /\ sends = [c \in CallIds |-> 0]
  /\ inflight = [c \in CallIds |-> 0]
  /\ lastSent = [c \in CallIds |-> [url |-> "", body |-> << >>]]
  /\ wire = [c \in CallIds |-> NoWire]
  /\ consults = [c \in CallIds |-> 0]
  /\ lastConsult = [c \in CallIds |-> NoConsult]
  /\ nfail = [c \in CallIds |-> 0]
  /\ onlySrv = [c \in CallIds |-> TRUE]

\* Variant: a later attempt finds the request emptied by the one before.
ReplayedRequest_Drained(c) == [store_id |-> << >>]

\* The request a later attempt encodes: the closure's borrow of the
\* caller's request.
ReplayedRequest(c) == req[c]

\* One attempt up to its first await: the url, the encoded body, the send.
StartAttempt(c, o, r) ==
  /\ sends[c] < MaxSends
  /\ sends' = [sends EXCEPT ![c] = @ + SendsPerAttempt]
  /\ inflight' = [inflight EXCEPT ![c] = @ + SendsPerAttempt]
  /\ lastSent' = [lastSent EXCEPT ![c] = [url |-> Url(o), body |-> Encode(r)]]
  /\ wire' = [wire EXCEPT ![c] = [NoWire EXCEPT !.send = "pending"]]
  /\ pc' = [pc EXCEPT ![c] = "send"]

\* A caller invokes operation o with request r.
Invoke(c, o, r) ==
  /\ c \in calls
  /\ pc[c] = "idle"
  /\ op' = [op EXCEPT ![c] = o]
  /\ req' = [req EXCEPT ![c] = r]
  /\ StartAttempt(c, o, r)
  /\ UNCHANGED <<cfg, envv, status, attempts_made, timer, result,
                 consults, lastConsult, nfail, onlySrv>>

get_object(c) == \E r \in RequestsIn(mode) : Invoke(c, "get", r)

put_object(c) == \E r \in RequestsIn(mode) : Invoke(c, "put", r)

delete_object(c) == \E r \in RequestsIn(mode) : Invoke(c, "delete", r)

list_key_versions(c) == \E r \in RequestsIn(mode) : Invoke(c, "list", r)

\* The rest of a call once its attempt has ended with r: the attempt's
\* local is dropped, and the operation returns, or (under retry) the
\* policy is asked and the loop goes on.
Finish(c, r) ==
  LET o == op[c]
      out == WireOutcome(o, wire'[c])
      n == attempts_made[c] + 1
      d == Decide(PolicyUsed, n, r.err)
  IN
  /\ inflight' = [inflight EXCEPT ![c] = 0]
  /\ status' = [status EXCEPT ![LocalSlot(c)] = 0]
  /\ nfail' = [nfail EXCEPT ![c] = IF out = "ok" THEN @ ELSE @ + 1]
  /\ onlySrv' = [onlySrv EXCEPT ![c] =
       @ /\ out = "status" /\ wire'[c].status \in 500..599]
  /\ budget' = [budget EXCEPT ![c] =
       IF mode = "flaky" /\ out # "ok" THEN @ - 1 ELSE @]
  /\ IF ~Retried(o) \/ r.ok
     THEN /\ result' = [result EXCEPT ![c] = Surface(o, r)]
          /\ pc' = [pc EXCEPT ![c] = "done"]
          /\ UNCHANGED <<attempts_made, timer, consults, lastConsult>>
     ELSE /\ attempts_made' = [attempts_made EXCEPT ![c] = n]
          /\ consults' = [consults EXCEPT ![c] = @ + 1]
          /\ lastConsult' = [lastConsult EXCEPT ![c] =
               [policy |-> PolicyUsed, attempt |-> n, error |-> r.err,
                retry |-> d.retry, delay |-> d.delay]]
          /\ IF d.retry
             THEN /\ pc' = [pc EXCEPT ![c] = "sleep"]
                  /\ timer' = [timer EXCEPT ![c] = d.delay]
                  /\ UNCHANGED result
             ELSE /\ pc' = [pc EXCEPT ![c] = "done"]
                  /\ result' = [result EXCEPT ![c] = Surface(o, r)]
                  /\ UNCHANGED timer
  /\ UNCHANGED <<cfg, mode, calls, op, req, sends, lastSent>>

\* send().await fails: `?` returns the transport error.
SendFail(c) ==
  /\ pc[c] = "send"
  /\ MayFail(c)
  /\ wire' = [wire EXCEPT ![c].send = "failed"]
  /\ Finish(c, Err(TransportError))

\* send().await answers with status s: let status = response.status().
SendOk(c, s) ==
  /\ pc[c] = "send"
  /\ MayFail(c) \/ s \in 200..299
  /\ wire' = [wire EXCEPT ![c].send = "ok", ![c].status = s, ![c].body = "pending"]
  /\ status' = [status EXCEPT ![LocalSlot(c)] = s]
  /\ pc' = [pc EXCEPT ![c] = "body"]
  /\ UNCHANGED <<cfg, envv, op, req, attempts_made, timer, result,
                 sends, inflight, lastSent, consults, lastConsult, nfail, onlySrv>>

\* bytes().await fails: `?` returns the transport error.
BodyFail(c) ==
  /\ pc[c] = "body"
  /\ MayFail(c)
  /\ wire' = [wire EXCEPT ![c].body = "failed"]
  /\ Finish(c, BodyFailResult(status[LocalSlot(c)]))

\* bytes().await yields the body p: the status test and the decoding follow.
BodyOk(c, p) ==
  /\ pc[c] = "body"
  /\ wire' = [wire EXCEPT ![c].body = "ok", ![c].payload = p]
  /\ MayFail(c) \/ WireOutcome(op[c], wire'[c]) = "ok"
  /\ Finish(c, AttemptResult(op[c], status[LocalSlot(c)], p))

\* The wait the policy asked for goes by.
Tick(c) ==
  /\ pc[c] = "sleep"
  /\ timer[c] > 0
  /\ timer' = [timer EXCEPT ![c] = @ - 1]
  /\ UNCHANGED <<cfg, envv, pc, op, req, status, attempts_made, result, obsv>>

\* sleep(delay).await returns: the loop runs the closure again.
Wake(c) ==
  /\ pc[c] = "sleep"
  /\ timer[c] = 0
  /\ StartAttempt(c, op[c], ReplayedRequest(c))
  /\ UNCHANGED <<cfg, envv, op, req, status, attempts_made, timer, result,
                 consults, lastConsult, nfail, onlySrv>>

\* The steps of call c that the runtime, the transport and the timer take.
Progress(c) ==
  \/ SendFail(c)
  \/ \E s \in StatusesIn(mode) : SendOk(c, s)
  \/ BodyFail(c)
  \/ \E p \in BodiesIn(mode) : BodyOk(c, p)
  \/ Tick(c)
  \/ Wake(c)

Next ==
  \E c \in CallIds :
    \/ get_object(c)
    \/ put_object(c)
    \/ delete_object(c)
    \/ list_key_versions(c)
    \/ Progress(c)

Spec == Init /\ [][Next]_vars

\* The runtime polls a call in flight again, the transport answers it, and
\* a wait comes to its end.
FairSpec == Spec /\ \A c \in CallIds : WF_vars(Progress(c))

TypeOK ==
  /\ base_url \in BaseUrls
  /\ retry_policy \in Policies
  /\ \A c \in CallIds :
       /\ pc[c] \in {"idle", "send", "body", "sleep", "done"}
       /\ sends[c] \in 0..MaxSends
       /\ inflight[c] \in 0..1
       /\ attempts_made[c] \in 0..MaxSends
       /\ budget[c] \in 0..MaxSends

\* ------------------------------------------- concurrent put_object calls

\* NumCalls put_object calls on one client that retries every failure, each
\* over a transport that fails at most MaxSends - 1 times and then succeeds.
InitConc ==
  /\ base_url = "http://vss"
  /\ client = "reqwest::Client"
  /\ retry_policy = "Always"
  /\ mode = "flaky"
  /\ calls = CallIds
  /\ budget = [c \in CallIds |-> MaxSends - 1]
  /\ pc = [c \in CallIds |-> "idle"]
  /\ op = [c \in CallIds |-> "none"]
  /\ req = [c \in CallIds |-> [store_id |-> << >>]]
  /\ status = [c \in CallIds |-> 0]
  /\ attempts_made = [c \in CallIds |-> 0]
  /\ timer = [c \in CallIds |-> 0]
  /\ result = [c \in CallIds |-> NoResult]
  /\ sends = [c \in CallIds |-> 0]
  /\ inflight = [c \in CallIds |-> 0]
  /\ lastSent = [c \in CallIds |-> [url |-> "", body |-> << >>]]
  /\ wire = [c \in CallIds |-> NoWire]
  /\ consults = [c \in CallIds |-> 0]
  /\ lastConsult = [c \in CallIds |-> NoConsult]
  /\ nfail = [c \in CallIds |-> 0]
  /\ onlySrv = [c \in CallIds |-> TRUE]

NextConc == \E c \in CallIds : put_object(c) \/ Progress(c)

\* Every call in flight is polled again and its transport answers.
ConcSpec ==
  InitConc /\ [][NextConc]_vars /\ \A c \in CallIds : WF_vars(Progress(c))

AllOk == \A c \in CallIds : pc[c] # "idle" ~> (pc[c] = "done" /\ result[c].ok)

\* ------------------------------------ concurrent calls of all operations

\* NumCalls calls of any of the four operations on one client, in any
\* order and overlap, under a policy that never retries or retries server
\* errors at once.
InitMix ==
  /\ base_url \in BaseUrls
  /\ client = "reqwest::Client"
  /\ retry_policy \in {"Never", "ServerErrorOnly"}
  /\ mode = "mix"
  /\ calls = CallIds
  /\ budget = [c \in CallIds |-> 0]
  /\ pc = [c \in CallIds |-> "idle"]
  /\ op = [c \in CallIds |-> "none"]
  /\ req = [c \in CallIds |-> [store_id |-> << >>]]
  /\ status = [c \in CallIds |-> 0]
  /\ attempts_made = [c \in CallIds |-> 0]
  /\ timer = [c \in CallIds |-> 0]
  /\ result = [c \in CallIds |-> NoResult]
  /\ sends = [c \in CallIds |-> 0]
  /\ inflight = [c \in CallIds |-> 0]
  /\ lastSent = [c \in CallIds |-> [url |-> "", body |-> << >>]]
  /\ wire = [c \in CallIds |-> NoWire]
  /\ consults = [c \in CallIds |-> 0]
  /\ lastConsult = [c \in CallIds |-> NoConsult]
  /\ nfail = [c \in CallIds |-> 0]
  /\ onlySrv = [c \in CallIds |-> TRUE]

\* The steps of these calls: no policy of InitMix asks for a wait, so no
\* wait goes by.
NextMix ==
  \E c \in CallIds :
    \/ get_object(c)
    \/ put_object(c)
    \/ delete_object(c)
    \/ list_key_versions(c)
    \/ SendFail(c)
    \/ \E s \in StatusesIn(mode) : SendOk(c, s)
    \/ BodyFail(c)
    \/ \E p \in BodiesIn(mode) : BodyOk(c, p)
    \/ Wake(c)

MixSpec == InitMix /\ [][NextMix]_vars

\* ---------------------------------------------------------- properties

\* The latest attempt of call c has ended (and no later one has started).
Ended(c) == wire[c].send = "failed" \/ wire[c].body \in {"failed", "ok"}

\* The transport answered the latest attempt of call c with a status and a body.
Answered(c) == wire[c].send = "ok" /\ wire[c].body = "ok"

\* The error that the outcome of an attempt calls for.
ErrorFor(o, w) ==
  CASE WireOutcome(o, w) = "transport" -> TransportError
    [] WireOutcome(o, w) = "status" -> VssError_new(w.status, w.payload)
    [] WireOutcome(o, w) = "undecodable" -> MalformedResponse
    [] WireOutcome(o, w) = "novalue" -> ApiViolation
    [] OTHER -> NoErr

\* C1: a get_object call answered with a success status and a body that
\* decodes to a response without a value returns the API-violation error,
\* which is not the decode error and not Ok; and no get_object call returns
\* Ok with a response that has no value.
C1_GetWithoutValue ==
  \A c \in CallIds :
    op[c] = "get" /\ pc[c] = "done" =>
      /\ ( /\ Answered(c)
           /\ wire[c].status \in 200..299
           /\ Decode("get", wire[c].payload).ok
           /\ Decode("get", wire[c].payload).val.value = << >> )
         => /\ result[c] = Err(ApiViolation)
            /\ result[c].err # MalformedResponse
            /\ result[c].err.kind # MalformedResponse.kind
            /\ ~result[c].ok
      /\ result[c].ok => result[c].val.value # << >>

C1_Witness ==
  \E c \in CallIds :
    /\ op[c] = "get" /\ pc[c] = "done"
    /\ wire[c].status = 200 /\ wire[c].body = "ok" /\ wire[c].payload = << >>
    /\ result[c] = Err(ApiViolation)

\* C2: under the policy that retries only server errors, a put_object call
\* whose attempts were all answered with a server error goes on to another
\* attempt, and when the next attempt is answered with a client error the
\* call returns that client error, having made exactly one transport call
\* more than the server errors it met.
C2_Step(c) ==
  op[c] = "put" /\ retry_policy = "ServerErrorOnly" /\ pc[c] = "body" /\ onlySrv[c]
  /\ wire'[c].body = "ok" =>
    /\ wire'[c].status \in 500..599 =>
         pc'[c] = "sleep" /\ lastConsult'[c].retry /\ sends'[c] = nfail'[c]
    /\ wire'[c].status \in 400..499 =>
         /\ pc'[c] = "done"
         /\ sends'[c] = nfail[c] + 1
         /\ result'[c] = Err(VssError_new(wire'[c].status, wire'[c].payload))
         /\ result'[c].err.kind = "ClientError"

\* C2: every step of a put_object call under the server-error-only policy
\* retries after a server error and returns the client error that follows,
\* after exactly one transport call more than the server errors.
C2_ServerThenClientError == [][\A c \in CallIds : C2_Step(c)]_vars

C2_Witness ==
  \E c \in CallIds :
    /\ op[c] = "put" /\ retry_policy = "ServerErrorOnly" /\ pc[c] = "done"
    /\ sends[c] >= 2 /\ nfail[c] = sends[c]
    /\ result[c].err.kind = "ClientError" /\ result[c].err.status = 404

\* C3: a put_object call whose first attempt succeeds has made one transport
\* call, has not consulted the retry policy and has returned Ok with the
\* decoded response, whatever the policy.
C3_FirstAttemptSucceeds ==
  \A c \in CallIds :
    ( /\ op[c] = "put" /\ nfail[c] = 0 /\ Answered(c)
      /\ wire[c].status \in 200..299
      /\ Decode("put", wire[c].payload).ok )
    => /\ pc[c] = "done"
       /\ sends[c] = 1
       /\ consults[c] = 0 /\ lastConsult[c] = NoConsult
       /\ result[c] = Ok(Decode("put", wire[c].payload).val)

C3_Witness ==
  \E c \in CallIds :
    /\ op[c] = "put" /\ retry_policy = "Always" /\ pc[c] = "done"
    /\ sends[c] = 1 /\ consults[c] = 0 /\ result[c].ok

\* C4: a get_object, delete_object or list_key_versions call makes one
\* transport call, never consults the retry policy, and once its attempt has
\* ended it has returned, a failed attempt with the error of that attempt.
C4_NeverRetried ==
  \A c \in CallIds :
    op[c] \in {"get", "delete", "list"} =>
      /\ sends[c] = 1
      /\ consults[c] = 0 /\ lastConsult[c] = NoConsult /\ attempts_made[c] = 0
      /\ pc[c] \in {"send", "body", "done"}
      /\ Ended(c) <=> pc[c] = "done"
      /\ Ended(c) /\ WireOutcome(op[c], wire[c]) # "ok" =>
           result[c] = Err(ErrorFor(op[c], wire[c]))

C4_Witness ==
  \E c \in CallIds :
    /\ op[c] = "list" /\ retry_policy = "Always" /\ pc[c] = "done"
    /\ wire[c].status = 500 /\ wire[c].body = "ok"
    /\ result[c].err.kind = "ServerError" /\ sends[c] = 1

\* C5: of the concurrent put_object calls on one client, each over a
\* transport that fails a bounded number of times and then succeeds and
\* under a policy that retries every failure, every call that was made
\* eventually returns Ok; and the attempts the retry loop has counted for a
\* call, the consultations of the policy for it and the attempt index the
\* policy last saw for it all equal the number of that call's own failed
\* attempts, whatever the other calls do.
C5_OwnFailuresOnly ==
  \A c \in CallIds :
    /\ attempts_made[c] = nfail[c]
    /\ consults[c] = nfail[c]
    /\ lastConsult[c].attempt = nfail[c]
    /\ pc[c] = "done" => result[c].ok

\* C5: every concurrent put_object call eventually returns Ok, and always
\* its counts are those of its own failed attempts.
C5_ConcurrentPuts == AllOk /\ []C5_OwnFailuresOnly

C5_Witness ==
  /\ pc[1] = "done" /\ result[1].ok /\ attempts_made[1] = MaxSends - 1
  /\ pc[2] = "body" /\ attempts_made[2] = 1 /\ wire[2].status = 500

\* C6: for every operation, an attempt answered with a non-success status
\* and a non-empty body yields an error with exactly that status and exactly
\* those body bytes: the error handed to the policy (put_object) and the
\* error returned.
C6_StatusAndBodyKept ==
  \A c \in CallIds :
    Answered(c) /\ wire[c].status \notin 200..299 /\ wire[c].payload # << >> =>
      /\ op[c] = "put" =>
           /\ lastConsult[c].error.status = wire[c].status
           /\ lastConsult[c].error.body = wire[c].payload
      /\ pc[c] = "done" =>
           /\ ~result[c].ok
           /\ result[c].err.status = wire[c].status
           /\ result[c].err.body = wire[c].payload
      /\ op[c] # "put" => pc[c] = "done"

C6_Witness ==
  \E c \in CallIds :
    /\ op[c] = "put" /\ pc[c] = "done"
    /\ wire[c].status = 404 /\ wire[c].body = "ok" /\ wire[c].payload = <<10, 0>>
    /\ result[c].err.status = 404 /\ result[c].err.body = <<10, 0>>

\* C7: a put_object call that has returned an error returned it on a stop
\* of the policy after its latest attempt, and the error is exactly the one
\* of that attempt, as the policy saw it: same kind, status and body; and a
\* call that has returned makes no further transport call.
C7_Returned ==
  \A c \in CallIds :
    op[c] = "put" /\ pc[c] = "done" /\ ~result[c].ok =>
      /\ ~lastConsult[c].retry
      /\ lastConsult[c].attempt = sends[c]
      /\ result[c].err = ErrorFor("put", wire[c])
      /\ result[c].err = lastConsult[c].error

C7_Final(c) ==
  pc[c] = "done" => pc'[c] = "done" /\ sends'[c] = sends[c] /\ result'[c] = result[c]

\* C7: the error a put_object call returns is always the one of its last
\* attempt, unchanged, and a returned call never sends again.
C7_LastErrorVerbatim == []C7_Returned /\ [][\A c \in CallIds : C7_Final(c)]_vars

C7_Witness ==
  \E c \in CallIds :
    /\ op[c] = "put" /\ retry_policy = "MaxAttempts" /\ pc[c] = "done"
    /\ sends[c] = PolicyMaxAttempts /\ wire[c].status = 404 /\ wire[c].body = "ok"
    /\ result[c].err = VssError_new(404, wire[c].payload)
    /\ onlySrv[c] = FALSE

\* C8: for a put_object call the policy has been consulted once for each
\* failed attempt and not otherwise: not before the first attempt has ended,
\* not for a successful attempt; the attempt index it last saw is the number
\* of failed attempts so far (1 for the first, one more for each next), the
\* error it last saw is the error of the attempt that just failed, and the
\* policy is the client's.
C8_State ==
  \A c \in CallIds :
    op[c] = "put" =>
      /\ consults[c] = nfail[c]
      /\ pc[c] \in {"send", "body"} => consults[c] = sends[c] - 1
      /\ pc[c] = "sleep" => consults[c] = sends[c] /\ lastConsult[c].retry
      /\ pc[c] = "done" =>
           consults[c] = IF result[c].ok THEN sends[c] - 1 ELSE sends[c]
      /\ consults[c] = 0 => lastConsult[c] = NoConsult
      /\ consults[c] > 0 =>
           /\ lastConsult[c].attempt = consults[c]
           /\ lastConsult[c].policy = retry_policy
      /\ Ended(c) /\ WireOutcome("put", wire[c]) # "ok" =>
           lastConsult[c].error = ErrorFor("put", wire[c])

C8_Step(c) ==
  /\ consults'[c] \in {consults[c], consults[c] + 1}
  /\ consults'[c] = consults[c] + 1 =>
       /\ pc[c] \in {"send", "body"} /\ pc'[c] \in {"sleep", "done"}
       /\ lastConsult'[c].attempt = lastConsult[c].attempt + 1
  /\ consults'[c] = consults[c] => lastConsult'[c] = lastConsult[c]

\* C8: the policy is consulted once per failed attempt of a put_object
\* call, with the index 1, 2, .. and the error of the attempt that failed.
C8_PolicyConsulted == []C8_State /\ [][\A c \in CallIds : C8_Step(c)]_vars

C8_Witness ==
  \E c \in CallIds :
    /\ op[c] = "put" /\ pc[c] = "sleep"
    /\ consults[c] = 2 /\ lastConsult[c].attempt = 2
    /\ lastConsult[c].error = VssError_new(302, <<255>>)

\* C9: a put_object call has at most one transport call in flight, and a
\* further attempt starts only from the wait after a failed attempt for
\* which the policy answered retry, once that wait has elapsed.
C9_State == \A c \in CallIds : inflight[c] <= 1 /\ (inflight[c] = 1 <=> pc[c] \in {"send", "body"})

C9_Step(c) ==
  sends'[c] # sends[c] =>
    /\ sends'[c] = sends[c] + 1
    /\ inflight[c] = 0 /\ inflight'[c] = 1
    /\ sends[c] >= 1 =>
         /\ pc[c] = "sleep" /\ timer[c] = 0
         /\ Ended(c) /\ WireOutcome(op[c], wire[c]) # "ok"
         /\ lastConsult[c].retry /\ lastConsult[c].attempt = sends[c]

C9_Wait(c) ==
  pc[c] # "sleep" /\ pc'[c] = "sleep" =>
    timer'[c] = lastConsult'[c].delay /\ lastConsult'[c].retry

\* C9: the attempts of a put_object call are strictly sequential, each
\* further one starting after the wait the policy asked for.
C9_Sequential ==
  []C9_State /\ [][\A c \in CallIds : C9_Step(c) /\ C9_Wait(c)]_vars

C9_Witness ==
  \E c \in CallIds :
    /\ op[c] = "put" /\ retry_policy = "MaxAttempts" /\ pc[c] = "send"
    /\ sends[c] = 2 /\ inflight[c] = 1 /\ lastConsult[c].delay = 2

\* C10: a put_object call returns only on a successful attempt or on a stop
\* of the policy; under the policy that always answers retry a call whose
\* attempts all fail never returns: after each failed attempt it waits for
\* the next one, with as many attempts made as counted.
C10_NoCapOfItsOwn ==
  \A c \in CallIds :
    op[c] = "put" =>
      /\ pc[c] = "done" =>
           \/ result[c].ok /\ WireOutcome("put", wire[c]) = "ok"
           \/ ~result[c].ok /\ consults[c] >= 1 /\ ~lastConsult[c].retry
      /\ retry_policy = "Always" /\ pc[c] = "done" => result[c].ok
      /\ retry_policy = "Always" /\ Ended(c) /\ WireOutcome("put", wire[c]) # "ok" =>
           pc[c] = "sleep" /\ attempts_made[c] = sends[c]

C10_Witness ==
  \E c \in CallIds :
    /\ op[c] = "put" /\ retry_policy = "Always" /\ pc[c] = "sleep"
    /\ sends[c] = MaxSends /\ nfail[c] = MaxSends /\ attempts_made[c] = MaxSends

\* What a call returns, given how the transport answered its last attempt.
ResultFor(o, w) ==
  IF WireOutcome(o, w) = "ok" THEN Ok(Decode(o, w.payload).val)
  ELSE Err(ErrorFor(o, w))

\* C11 (state): what a call has returned is what the transport's answers to
\* that call alone call for, whatever calls came before it or overlap it.
C11_OwnAnswersOnly ==
  \A c \in CallIds : pc[c] = "done" => result[c] = ResultFor(op[c], wire[c])

\* C11 (step): no step of any call changes a field of the client.
C11_Frame ==
  base_url' = base_url /\ client' = client /\ retry_policy' = retry_policy

\* C11: the client's endpoint, transport handle and retry policy are the
\* same after any sequence and interleaving of get_object, put_object,
\* delete_object and list_key_versions calls, successful or not, and no
\* call leaves anything behind that changes what another call returns.
C11_ConfigUnchanged == []C11_OwnAnswersOnly /\ [][C11_Frame]_vars

C11_Witness ==
  /\ op[1] = "put" /\ pc[1] = "done" /\ sends[1] = 2 /\ ~result[1].ok
  /\ op[2] = "get" /\ pc[2] = "done" /\ result[2].ok
  /\ retry_policy = "ServerErrorOnly" /\ base_url = "http://vss/v2"

\* The error of the latest, failed attempt of call c: the one the policy
\* saw (put_object) or the one returned.
AttemptError(c) == IF op[c] = "put" THEN lastConsult[c].error ELSE result[c].err

\* C12: a failed attempt of any operation has an error of the kind its
\* outcome calls for: transport failure when the send or the receipt of the
\* body failed, client error for a 4xx status, server error for a 5xx
\* status, malformed response for a success status with a body that does
\* not decode; and every non-success status, also outside 4xx and 5xx,
\* gives an error and never Ok.
C12_Classified ==
  \A c \in CallIds :
    Ended(c) =>
      LET w == wire[c]
          e == AttemptError(c)
      IN
      /\ w.send = "failed" \/ w.body = "failed" => e.kind = "TransportError"
      /\ Answered(c) /\ w.status \in 400..499 => e.kind = "ClientError"
      /\ Answered(c) /\ w.status \in 500..599 => e.kind = "ServerError"
      /\ Answered(c) /\ w.status \in 200..299 /\ ~Decode(op[c], w.payload).ok =>
           e.kind = "MalformedResponse"
      /\ Answered(c) /\ w.status \notin 200..299 =>
           /\ e.kind # "none" /\ e.status = w.status
           /\ ~result[c].ok
           /\ pc[c] = "done" => result[c].err = e
      /\ WireOutcome(op[c], w) # "ok" => ~result[c].ok /\ e # NoErr

C12_Witness ==
  \E c \in CallIds :
    /\ op[c] = "delete" /\ pc[c] = "done"
    /\ wire[c].send = "ok" /\ wire[c].body = "ok" /\ wire[c].status = 302
    /\ ~result[c].ok /\ result[c].err.status = 302

\* C13: a get_object, delete_object or list_key_versions call answered with
\* a success status has returned after its one transport call: the decode
\* error and not Ok when the body does not decode into the operation's
\* response, and Ok with exactly the decoded response when it does (and,
\* for get_object, holds a value).
C13_DecodeOrMalformed ==
  \A c \in CallIds :
    op[c] \in {"get", "delete", "list"} /\ Answered(c) /\ wire[c].status \in 200..299 =>
      LET d == Decode(op[c], wire[c].payload) IN
      /\ pc[c] = "done" /\ sends[c] = 1
      /\ ~d.ok => result[c] = Err(MalformedResponse) /\ ~result[c].ok
      /\ d.ok /\ (op[c] = "get" => d.val.value # << >>) =>
           /\ result[c] = Ok(d.val)
           /\ result[c].val.shape =
                CASE op[c] = "get" -> "GetObjectResponse"
                  [] op[c] = "delete" -> "DeleteObjectResponse"
                  [] op[c] = "list" -> "ListKeyVersionsResponse"
           /\ wire[c].payload = <<10, 0>> /\ op[c] # "delete" =>
                result[c].val.value = << << >> >>
           /\ wire[c].payload = << >> => result[c].val.value = << >>
      /\ wire[c].payload = <<255>> => ~d.ok

C13_Witness ==
  \E c \in CallIds :
    /\ op[c] = "list" /\ pc[c] = "done" /\ sends[c] = 1
    /\ wire[c].status = 200 /\ wire[c].body = "ok" /\ wire[c].payload = <<255>>
    /\ result[c] = Err(MalformedResponse)

\* C14: every put_object attempt that fails, by a send failure, a body
\* receive failure, a non-success status or a body that does not decode,
\* has been put to the retry policy with its own error, once per failed
\* attempt; and when the policy said retry, the call's next step is a new
\* attempt from the start: the request is encoded and sent again to the same
\* url, and nothing of the failed attempt's answer is kept.
C14_State ==
  \A c \in CallIds :
    op[c] = "put" /\ Ended(c) =>
      LET w == wire[c]
          consulted(e) ==
            /\ consults[c] = sends[c] /\ consults[c] = nfail[c]
            /\ lastConsult[c].attempt = sends[c]
            /\ lastConsult[c].policy = retry_policy
            /\ lastConsult[c].error = e
            /\ pc[c] = (IF lastConsult[c].retry THEN "sleep" ELSE "done")
      IN
      /\ w.send = "failed" => consulted(TransportError)
      /\ w.send = "ok" /\ w.body = "failed" => consulted(TransportError)
      /\ Answered(c) /\ w.status \notin 200..299 =>
           consulted(VssError_new(w.status, w.payload))
      /\ Answered(c) /\ w.status \in 200..299 /\ ~Decode("put", w.payload).ok =>
           consulted(MalformedResponse)

C14_Step(c) ==
  op[c] = "put" /\ pc[c] = "sleep" /\ pc'[c] # "sleep" =>
    /\ pc'[c] = "send"
    /\ sends'[c] = sends[c] + 1
    /\ lastSent'[c] = [url |-> base_url \o "/putObjects", body |-> Encode(req[c])]
    /\ wire'[c] = [NoWire EXCEPT !.send = "pending"]
    /\ status'[c] = 0

C14_EveryFailureRetried == []C14_State /\ [][\A c \in CallIds : C14_Step(c)]_vars

C14_Witness ==
  \E c \in CallIds :
    /\ op[c] = "put" /\ retry_policy = "Always"
    /\ sends[c] = 2 /\ pc[c] = "send"
    /\ lastConsult[c].error = MalformedResponse /\ lastConsult[c].retry
    /\ lastSent[c].body = Encode(req[c])

\* C15: under a policy that stops no later than attempt M (Never: 1,
\* MaxAttempts: PolicyMaxAttempts) a put_object call returns, whatever the
\* transport does, after at most M transport calls; a returned call made as
\* many transport calls as the index of its first attempt that succeeded or
\* was followed by stop, every earlier attempt having failed and been
\* followed by retry; and it returned Ok exactly when that attempt succeeded.
C15_Bound ==
  \A c \in CallIds :
    op[c] = "put" =>
      /\ retry_policy = "Never" => sends[c] <= 1
      /\ retry_policy = "MaxAttempts" => sends[c] <= PolicyMaxAttempts
      /\ nfail[c] \in {sends[c] - 1, sends[c]}
      /\ consults[c] = nfail[c]
      /\ pc[c] = "done" =>
           /\ result[c].ok <=> WireOutcome("put", wire[c]) = "ok"
           /\ result[c].ok => sends[c] = nfail[c] + 1
           /\ ~result[c].ok =>
                /\ sends[c] = nfail[c]
                /\ lastConsult[c].attempt = sends[c] /\ ~lastConsult[c].retry
      /\ pc[c] = "sleep" => lastConsult[c].attempt = sends[c] /\ lastConsult[c].retry

C15_Returns ==
  \A c \in CallIds :
    (op[c] = "put" /\ retry_policy \in {"Never", "MaxAttempts"}) ~> pc[c] = "done"

C15_BoundedPolicyTerminates == []C15_Bound /\ C15_Returns

C15_Witness ==
  \E c \in CallIds :
    /\ op[c] = "put" /\ retry_policy = "MaxAttempts" /\ pc[c] = "done"
    /\ sends[c] = PolicyMaxAttempts /\ ~result[c].ok

\* C16: every transport call of an operation goes to the base endpoint
\* followed directly by the operation's own fixed path: /getObject for
\* get_object, /putObjects for put_object (on each of its attempts),
\* /deleteObject for delete_object, /listKeyVersions for list_key_versions.
C16_OwnPath ==
  \A c \in CallIds :
    sends[c] >= 1 =>
      /\ op[c] = "get" => lastSent[c].url = base_url \o "/getObject"
      /\ op[c] = "put" => lastSent[c].url = base_url \o "/putObjects"
      /\ op[c] = "delete" => lastSent[c].url = base_url \o "/deleteObject"
      /\ op[c] = "list" => lastSent[c].url = base_url \o "/listKeyVersions"

C16_Witness ==
  \E c \in CallIds :
    /\ op[c] = "put" /\ sends[c] = 2 /\ pc[c] = "send"
    /\ base_url = "http://vss/v2"
    /\ lastSent[c].url = "http://vss/v2/putObjects"

\* C17: every attempt of one put_object call sends the same body, the
\* encoding of the request the caller passed, to the same url; no step
\* after the first send changes what the call sends or the request itself.
C17_State ==
  \A c \in CallIds :
    op[c] = "put" /\ sends[c] >= 1 =>
      /\ lastSent[c].body = Encode(req[c])
      /\ req[c].store_id = <<115>> => lastSent[c].body = <<10, 1, 115>>
      /\ req[c].store_id = << >> => lastSent[c].body = << >>

C17_Step(c) ==
  op[c] = "put" /\ sends[c] >= 1 => lastSent'[c] = lastSent[c] /\ req'[c] = req[c]

C17_SameBytesEveryAttempt == []C17_State /\ [][\A c \in CallIds : C17_Step(c)]_vars

C17_Witness ==
  \E c \in CallIds :
    /\ op[c] = "put" /\ req[c].store_id = <<115>>
    /\ sends[c] = 2 /\ pc[c] = "body"
    /\ lastSent[c].body = <<10, 1, 115>>

\* C18: an attempt whose send was answered with a status, whatever its
\* value, and whose body then failed to arrive has the transport error for
\* its error: the call has not returned Ok, the error carries no status, a
\* get_object, delete_object or list_key_versions call has returned that
\* error, and a put_object call has put that error to the retry policy.
C18_BodyFailureIsTransport ==
  \A c \in CallIds :
    wire[c].send = "ok" /\ wire[c].body = "failed" =>
      /\ wire[c].status \in Statuses
      /\ ~result[c].ok
      /\ AttemptError(c) = TransportError
      /\ AttemptError(c).status = 0 /\ AttemptError(c).kind \notin {"ClientError", "ServerError"}
      /\ op[c] # "put" => pc[c] = "done" /\ sends[c] = 1 /\ result[c] = Err(TransportError)
      /\ op[c] = "put" =>
           /\ consults[c] = sends[c]
           /\ lastConsult[c].error = TransportError
           /\ lastConsult[c].retry = Decide(retry_policy, sends[c], TransportError).retry
           /\ pc[c] = "done" => result[c] = Err(TransportError)

C18_Witness ==
  \E c \in CallIds :
    /\ op[c] = "put" /\ retry_policy = "ServerErrorOnly"
    /\ wire[c].send = "ok" /\ wire[c].status = 500 /\ wire[c].body = "failed"
    /\ pc[c] = "done" /\ result[c] = Err(TransportError)

====
